---- MODULE Spec2Model ----
(***************************************************************************)
(* MondJS: the Result container (classes Ok and Err of                     *)
(* package/src/lib/Result.ts) and the Option container (classes Some and   *)
(* None of package/src/lib/Option.ts), driven by a caller that constructs  *)
(* one container with ok(v), err(e), some(v) or none() and then calls its  *)
(* methods, and that calls the functions divide and findUserById of the    *)
(* test suite, which build containers.                                     *)
(*                                                                         *)
(* JavaScript values are records: a number is [t |-> "number", n |-> 5], a *)
(* string [t |-> "string", s |-> "boom"], a function value                 *)
(* [t |-> "function", name |-> "triple"], an Error object                  *)
(* [t |-> "Error", message |-> "..."], an instance of a class              *)
(* [cls |-> "Ok", value |-> v], [cls |-> "Err", error |-> e],              *)
(* [cls |-> "Some", value |-> v] or [cls |-> "None"], an array             *)
(* [t |-> "array", items |-> <<...>>], an object literal                   *)
(* [t |-> "object", props |-> [Ok |-> f, Error |-> g]].                    *)
(* A call's outcome is [k |-> "return" or "throw", v |-> the value         *)
(* returned or thrown, calls |-> the handler invocations it made, in       *)
(* order].                                                                 *)
(***************************************************************************)
EXTENDS Integers, Sequences, FiniteSets, TLC

VARIABLES
  self,    \* the container the caller calls methods on
  born,    \* that container as its constructor built it
  ncalls,  \* how many calls were made on it, counted up to MaxCalls
  op,      \* the method called last and its argument
  res,     \* what that call returned or threw
  calls,   \* the invocations of passed functions that call made, in order
  depth,   \* how many times the caller went on with a returned container
  handed,  \* whether a call on it before the last one was given a function
  failed,  \* whether a call on it before the last one threw
  erred    \* where the chain of andThen and map calls first held an Err

vars == <<self, born, ncalls, op, res, calls, depth, handed, failed, erred>>

(* ------------------------------ bounds --------------------------------- *)

\* numbers a container is constructed with are 0..MaxNum
MaxNum == 5

\* how many times the caller may go on with the container a call returned
MaxChain == 2

\* the calls made on one container are counted up to MaxCalls
MaxCalls == 2

(* --------------------------- JavaScript values ------------------------- *)

Num(n) == [t |-> "number", n |-> n]

NaN == [t |-> "NaN"]

Str(s) == [t |-> "string", s |-> s]

Null == [t |-> "null"]

Undefined == [t |-> "undefined"]

Fn(name) == [t |-> "function", name |-> name]

\* new Error(message)
NewError(message) == [t |-> "Error", message |-> message]

\* the TypeError the engine throws when what is called is not a function
NewTypeError(message) == [t |-> "TypeError", message |-> message]

\* [a, b]
Arr(items) == [t |-> "array", items |-> items]

\* { Ok: f, Error: g }
Obj(props) == [t |-> "object", props |-> props]

IsInstance(v) == "cls" \in DOMAIN v

\* the string a template literal `${v}` puts in place of v
TemplateString(v) ==
  IF IsInstance(v) THEN "[object Object]"
  ELSE CASE v.t = "number" -> ToString(v.n)
         [] v.t = "NaN" -> "NaN"
         [] v.t = "string" -> v.s
         [] v.t = "null" -> "null"
         [] v.t = "undefined" -> "undefined"
         [] v.t = "Error" -> "Error: " \o v.message
         [] v.t = "object" -> "[object Object]"
         [] OTHER -> "[function]"

\* the number the operators * and / and === 0 see in place of v
ToNumber(v) ==
  IF IsInstance(v) THEN NaN
  ELSE CASE v.t = "number" -> v
         [] v.t = "null" -> Num(0)
         [] OTHER -> NaN

\* v * k
Times(v, k) == IF ToNumber(v) = NaN THEN NaN ELSE Num(ToNumber(v).n * k)

(* ------------------------------ outcomes ------------------------------- *)

Return(v) == [k |-> "return", v |-> v, calls |-> <<>>]

Throw(v) == [k |-> "throw", v |-> v, calls |-> <<>>]

\* the record of one invocation of the handler f with the argument x
Invocation(f, x) == [fn |-> f, arg |-> x]

(* ----------------------------- constructors --------------------------- *)

\* class Ok: constructor(readonly value: T) {}
NewOk(value) == [cls |-> "Ok", value |-> value]

\* class Err: constructor(readonly error: E) {}
NewErr(error) == [cls |-> "Err", error |-> error]

\* function ok<T>(value: T): Result<T, never>
ok(value) == NewOk(value)

\* function err<E>(error: E): Result<never, E>
err(error) == NewErr(error)

\* class Some: constructor(public value: T) {}
NewSome(value) == [cls |-> "Some", value |-> value]

\* class None has no constructor and no field
NewNone == [cls |-> "None"]

\* function some<T>(value: T): Option<T>
some(value) == NewSome(value)

\* function none(): Option<never>
none == NewNone

(* --------------------- functions the caller passes --------------------- *)

\* (value) => value * 3
triple(x) == [k |-> "return", v |-> Times(x, 3)]

\* (x) => x
ident(x) == [k |-> "return", v |-> x]

\* (err) => `Fallback: ${err}`
fallbackMsg(x) == [k |-> "return", v |-> Str("Fallback: " \o TemplateString(x))]

\* () => { throw new Error("handler failed") }
thrower(x) == [k |-> "throw", v |-> NewError("handler failed")]

\* (value) => ok(value * 3)
okTriple(x) == [k |-> "return", v |-> ok(Times(x, 3))]

\* (value) => value === 0 ? err("Division by zero.") : ok(value)
nonZero(x) ==
  [k |-> "return", v |-> IF x = Num(0) THEN err(Str("Division by zero.")) ELSE ok(x)]

\* (value) => `Value is ${value}`
valueIs(x) == [k |-> "return", v |-> Str("Value is " \o TemplateString(x))]

\* (error) => `Error occurred: ${error}`
errorOccurred(x) == [k |-> "return", v |-> Str("Error occurred: " \o TemplateString(x))]

\* () => "Should not be called"
shouldNotBeCalled(x) == [k |-> "return", v |-> Str("Should not be called")]

\* () => "None called."
noneCalled(x) == [k |-> "return", v |-> Str("None called.")]

\* what calling the function value f with the argument x does: the value it
\* returns or the failure it signals (defined below, after the methods that
\* the functions composed of others call)
RECURSIVE Invoke(_, _)

\* the outcome of a method whose last step is the call f(x): what f returns
\* is returned, what f throws goes on to the caller, nothing is caught
TailCall(f, x) ==
  [k |-> Invoke(f, x).k, v |-> Invoke(f, x).v, calls |-> <<Invocation(f, x)>>]

\* the record of one invocation of the member key of an object of handlers,
\* the function value fn, with the arguments args
MemberInvocation(key, fn, args) == [key |-> key, fn |-> fn, args |-> args]

\* the outcome of a method whose last step is the call ops.key(...args):
\* a key that ops does not have is undefined, and calling it is a TypeError;
\* otherwise the function is invoked once (a parameter that gets no
\* argument is undefined) and what it returns or throws is the outcome
MemberCall(ops, key, args) ==
  IF key \notin DOMAIN ops.props
    THEN Throw(NewTypeError("ops." \o key \o " is not a function"))
    ELSE LET f == ops.props[key]
             c == Invoke(f, IF args = <<>> THEN Undefined ELSE args[1])
         IN  [k |-> c.k, v |-> c.v, calls |-> <<MemberInvocation(key, f, args)>>]

Mappers == {Fn("triple"), Fn("ident"), Fn("thrower")}

Fallbacks == {Fn("fallbackMsg"), Fn("ident"), Fn("thrower")}

Binders == {Fn("okTriple"), Fn("nonZero"), Fn("thrower"), Fn("ok")}

Messages == {"Cannot be divided by 0.", "Expected an error but got an Ok value"}

OptionMessages == {"User with the given ID was not found."}

ValueHandlers == {Fn("valueIs"), Fn("shouldNotBeCalled"), Fn("thrower")}

ErrorHandlers == {Fn("errorOccurred"), Fn("shouldNotBeCalled"), Fn("thrower")}

NoneHandlers == {Fn("noneCalled"), Fn("shouldNotBeCalled"), Fn("thrower")}

\* the objects passed to Result.match: { Ok, Error } as the method's type
\* asks, and { Ok, Err } as the documentation's example writes it
ResultOps ==
  {Obj([Ok |-> f, Error |-> g]) : f \in ValueHandlers, g \in ErrorHandlers}
    \cup {Obj([Ok |-> Fn("valueIs"), Err |-> Fn("errorOccurred")])}

\* the objects passed to Option.match: { Some, None }
OptionOps ==
  {Obj([Some |-> f, None |-> g]) : f \in ValueHandlers, g \in NoneHandlers}

\* the payloads a container is constructed with, and the defaults passed
Payloads ==
  {Num(n) : n \in 0..MaxNum} \cup {Str("Division by zero."), Str("boom")}
    \cup {Null, Undefined}

Bool(b) == [t |-> "boolean", b |-> b]

(* ------------------------------ class Ok ------------------------------- *)

Ok_isOk(this) == Return(Bool(TRUE))

Ok_isErr(this) == Return(Bool(FALSE))

Ok_unwrap(this) == Return(this.value)

Ok_unwrapOr(this, defaultValue) == Return(this.value)

Ok_expect(this, message) == Return(this.value)

Ok_unwrapOrElse_Invokes(this, fallback) == TailCall(fallback, this.value)

Ok_unwrapOrElse(this, fallback) == Return(this.value)

Ok_andThen_Rewraps(this, fallback) ==
  LET c == TailCall(fallback, this.value)
  IN  IF c.k = "throw" THEN c ELSE [c EXCEPT !.v = ok(c.v)]

Ok_andThen(this, fallback) == TailCall(fallback, this.value)

Ok_map_NoWrap(this, mapper) == TailCall(mapper, this.value)

Ok_map_Catches(this, mapper) ==
  LET c == TailCall(mapper, this.value)
  IN  IF c.k = "throw" THEN [c EXCEPT !.k = "return", !.v = err(c.v)]
      ELSE [c EXCEPT !.v = ok(c.v)]

Ok_map(this, mapper) ==
  LET c == TailCall(mapper, this.value)
  IN  IF c.k = "throw" THEN c ELSE [c EXCEPT !.v = ok(c.v)]

Ok_unwrapErr_NoValue(this) ==
  Throw(NewError("Tried to 'unwrapErr' an Ok value"))

Ok_unwrapErr(this) ==
  Throw(NewError("Tried to 'unwrapErr' an Ok value: " \o TemplateString(this.value)))

Ok_expectErr_WithValue(this, message) ==
  Throw(NewError(message \o ": " \o TemplateString(this.value)))

Ok_expectErr(this, message) == Throw(NewError(message))

Ok_match(this, ops) == MemberCall(ops, "Ok", <<this.value>>)

Ok_unpack_Both(this) == Return(Arr(<<this.value, this.value>>))

Ok_unpack(this) == Return(Arr(<<this.value, Null>>))

Ok_ok_Nullish(this) ==
  IF this.value \in {Null, Undefined} THEN Return(NewNone)
  ELSE Return(NewSome(this.value))

Ok_ok(this) == Return(NewSome(this.value))

Ok_err(this) == Return(NewNone)

(* ------------------------------ class Err ------------------------------ *)

Err_isOk_AlwaysTrue(this) == Return(Bool(TRUE))

Err_isOk(this) == Return(Bool(FALSE))

Err_isErr(this) == Return(Bool(TRUE))

Err_unwrap_Wrapped(this) == Throw(NewError(TemplateString(this.error)))

Err_unwrap(this) == Throw(this.error)

Err_unwrapOr_Throws(this, defaultValue) == Throw(this.error)

Err_unwrapOr(this, defaultValue) == Return(defaultValue)

Err_expect_ThrowsError(this, message) == Throw(this.error)

Err_expect(this, message) == Throw(NewError(message))

Err_unwrapOrElse_Twice(this, fallback) ==
  [TailCall(fallback, this.error) EXCEPT
     !.calls = <<Invocation(fallback, this.error), Invocation(fallback, this.error)>>]

Err_unwrapOrElse(this, fallback) == TailCall(fallback, this.error)

Err_andThen_Invokes(this, fallback) == TailCall(fallback, this.error)

Err_andThen(this, fallback) == Return(this)

Err_map_Invokes(this, mapper) ==
  LET c == TailCall(mapper, this.error)
  IN  IF c.k = "throw" THEN c ELSE [c EXCEPT !.v = ok(c.v)]

Err_map(this, mapper) == Return(this)

Err_unwrapErr_Throws(this) ==
  Throw(NewError("Tried to 'unwrapErr' an Err value"))

Err_unwrapErr(this) == Return(this.error)

Err_expectErr(this, message) == Return(this.error)

Err_match_CallsOk(this, ops) == MemberCall(ops, "Ok", <<this.error>>)

Err_match(this, ops) == MemberCall(ops, "Error", <<this.error>>)

Err_unpack_Swapped(this) == Return(Arr(<<this.error, Null>>))

Err_unpack(this) == Return(Arr(<<Null, this.error>>))

Err_ok_Some(this) == Return(NewSome(this.error))

Err_ok(this) == Return(NewNone)

Err_err(this) == Return(NewSome(this.error))

(* ------------------------------ class Some ----------------------------- *)

Some_isSome(this) == Return(Bool(TRUE))

Some_isNone(this) == Return(Bool(FALSE))

Some_unwrap(this) == Return(this.value)

Some_unwrapOr_Default(this, defaultValue) == Return(defaultValue)

Some_unwrapOr(this, defaultValue) == Return(this.value)

Some_expect(this, message) == Return(this.value)

Some_match(this, ops) == MemberCall(ops, "Some", <<this.value>>)

(* ------------------------------ class None ----------------------------- *)

None_isSome_True(this) == Return(Bool(TRUE))

None_isSome(this) == Return(Bool(FALSE))

None_isNone(this) == Return(Bool(TRUE))

None_unwrap_ReturnsUndefined(this) == Return(Undefined)

None_unwrap(this) == Throw(NewError("Called unwrap on a None value."))

None_unwrapOr(this, defaultValue) == Return(defaultValue)

None_expect_FixedMessage(this, message) ==
  Throw(NewError("Called unwrap on a None value."))

None_expect(this, message) == Throw(NewError(message))

None_match_PassesArg(this, ops) == MemberCall(ops, "None", <<Undefined>>)

None_match(this, ops) == MemberCall(ops, "None", <<>>)

(* ------------- type Result<T, E> = Ok<T> | Err<E>: dispatch ------------ *)

isOk(r) == IF r.cls = "Ok" THEN Ok_isOk(r) ELSE Err_isOk(r)

isErr(r) == IF r.cls = "Ok" THEN Ok_isErr(r) ELSE Err_isErr(r)

unwrap(r) == IF r.cls = "Ok" THEN Ok_unwrap(r) ELSE Err_unwrap(r)

unwrapOr(r, d) == IF r.cls = "Ok" THEN Ok_unwrapOr(r, d) ELSE Err_unwrapOr(r, d)

expect(r, m) == IF r.cls = "Ok" THEN Ok_expect(r, m) ELSE Err_expect(r, m)

unwrapOrElse(r, f) ==
  IF r.cls = "Ok" THEN Ok_unwrapOrElse(r, f) ELSE Err_unwrapOrElse(r, f)

andThen(r, f) == IF r.cls = "Ok" THEN Ok_andThen(r, f) ELSE Err_andThen(r, f)

map(r, f) == IF r.cls = "Ok" THEN Ok_map(r, f) ELSE Err_map(r, f)

unwrapErr(r) == IF r.cls = "Ok" THEN Ok_unwrapErr(r) ELSE Err_unwrapErr(r)

expectErr(r, m) == IF r.cls = "Ok" THEN Ok_expectErr(r, m) ELSE Err_expectErr(r, m)

match(r, ops) == IF r.cls = "Ok" THEN Ok_match(r, ops) ELSE Err_match(r, ops)

unpack(r) == IF r.cls = "Ok" THEN Ok_unpack(r) ELSE Err_unpack(r)

Result_ok(r) == IF r.cls = "Ok" THEN Ok_ok(r) ELSE Err_ok(r)

Result_err(r) == IF r.cls = "Ok" THEN Ok_err(r) ELSE Err_err(r)

(* --------------- type Option<T> = Some<T> | None: dispatch ------------- *)

isSome(o) == IF o.cls = "Some" THEN Some_isSome(o) ELSE None_isSome(o)

isNone(o) == IF o.cls = "Some" THEN Some_isNone(o) ELSE None_isNone(o)

Option_unwrap(o) == IF o.cls = "Some" THEN Some_unwrap(o) ELSE None_unwrap(o)

Option_unwrapOr(o, d) ==
  IF o.cls = "Some" THEN Some_unwrapOr(o, d) ELSE None_unwrapOr(o, d)

Option_expect(o, m) ==
  IF o.cls = "Some" THEN Some_expect(o, m) ELSE None_expect(o, m)

Option_match(o, ops) ==
  IF o.cls = "Some" THEN Some_match(o, ops) ELSE None_match(o, ops)

(* ------------- functions composed of others, and calling them ---------- *)

\* (x) => f(x).andThen(g)
BindThen(f, g) == [t |-> "function", name |-> "bindThen", f |-> f, g |-> g]

\* (x) => g(f(x))
Compose(f, g) == [t |-> "function", name |-> "compose", f |-> f, g |-> g]

\* (x) => ok(f(x))
OkAfter(f) == [t |-> "function", name |-> "okAfter", f |-> f]

bindThen(f, g, x) ==
  IF Invoke(f, x).k = "throw" THEN Invoke(f, x)
  ELSE [k |-> andThen(Invoke(f, x).v, g).k, v |-> andThen(Invoke(f, x).v, g).v]

compose(f, g, x) ==
  IF Invoke(f, x).k = "throw" THEN Invoke(f, x)
  ELSE Invoke(g, Invoke(f, x).v)

okAfter(f, x) ==
  IF Invoke(f, x).k = "throw" THEN Invoke(f, x)
  ELSE [k |-> "return", v |-> ok(Invoke(f, x).v)]

Invoke(f, x) ==
  CASE f.name = "triple" -> triple(x)
    [] f.name = "valueIs" -> valueIs(x)
    [] f.name = "errorOccurred" -> errorOccurred(x)
    [] f.name = "shouldNotBeCalled" -> shouldNotBeCalled(x)
    [] f.name = "noneCalled" -> noneCalled(x)
    [] f.name = "ident" -> ident(x)
    [] f.name = "fallbackMsg" -> fallbackMsg(x)
    [] f.name = "okTriple" -> okTriple(x)
    [] f.name = "nonZero" -> nonZero(x)
    [] f.name = "ok" -> [k |-> "return", v |-> ok(x)]
    [] f.name = "bindThen" -> bindThen(f.f, f.g, x)
    [] f.name = "compose" -> compose(f.f, f.g, x)
    [] f.name = "okAfter" -> okAfter(f.f, x)
    [] OTHER -> thrower(x)

\* the invocations the body of the function value f makes when f is called
\* with x, in order
InvokedBy(f, x) ==
  CASE f.name = "bindThen" ->
         <<Invocation(f.f, x)>> \o
           (IF Invoke(f.f, x).k = "throw" THEN <<>>
            ELSE andThen(Invoke(f.f, x).v, f.g).calls)
    [] f.name = "compose" ->
         <<Invocation(f.f, x)>> \o
           (IF Invoke(f.f, x).k = "throw" THEN <<>>
            ELSE <<Invocation(f.g, Invoke(f.f, x).v)>>)
    [] f.name = "okAfter" -> <<Invocation(f.f, x)>>
    [] OTHER -> <<>>

(* ------------- functions of the test suite: divide, findUserById ------- *)

ERROR_MESSAGE_DIVIDE == "Division by zero."

\* a === 0 for a number a
IsZero(a) == a = Num(0)

\* a / b for numbers a and b where b divides a, the only pairs divide is
\* given here
Quotient(a, b) == Num(a.n \div b.n)

divide(a, b) ==
  IF IsZero(a) \/ IsZero(b) THEN Return(err(Str(ERROR_MESSAGE_DIVIDE)))
  ELSE Return(ok(Quotient(a, b)))

users ==
  << Obj([id |-> Num(1), name |-> Str("Alice")]),
     Obj([id |-> Num(2), name |-> Str("Bob")]) >>

\* list.find((user) => user.id === id): the first such element, or undefined
find(list, id) ==
  LET hits == {i \in 1..Len(list) : list[i].props.id = id}
  IN  IF hits = {} THEN Undefined
      ELSE list[CHOOSE i \in hits : \A j \in hits : i <= j]

\* whether the condition of v ? a : b takes v for true
Truthy(v) ==
  IF IsInstance(v) THEN TRUE
  ELSE CASE v.t = "number" -> v.n # 0
         [] v.t = "NaN" -> FALSE
         [] v.t = "string" -> v.s # ""
         [] v.t = "null" -> FALSE
         [] v.t = "undefined" -> FALSE
         [] v.t = "boolean" -> v.b
         [] OTHER -> TRUE

findUserById_NoCheck(id) == Return(some(find(users, id)))

findUserById(id) ==
  LET user == find(users, id)
  IN  IF Truthy(user) THEN Return(some(user)) ELSE Return(none)

\* the pairs divide is called with: b is 0 or divides a
DividePairs ==
  {p \in (0..MaxNum) \X (0..MaxNum) : p[2] = 0 \/ p[1] % p[2] = 0}

\* the ids findUserById is called with
UserIds == {Num(n) : n \in 0..MaxNum}

(* ------------------------------ the caller ----------------------------- *)

NoCall == [name |-> "new", arg |-> Undefined]

NoResult == [k |-> "none", v |-> Undefined]

IsResult(c) == c.cls \in {"Ok", "Err"}

IsOption(c) == c.cls \in {"Some", "None"}

\* no container of the chain has been an Err so far
NoErr == [from |-> "none", r |-> Undefined]

\* the first Err of a chain: e as it was, or else the container c when it is
\* an Err, which the chain got from from: its "start" or a "step" of it
FirstErr(e, c, from) ==
  IF e # NoErr THEN e
  ELSE IF c.cls = "Err" THEN [from |-> from, r |-> c] ELSE NoErr

\* the containers the constructor functions build
Constructed ==
  {ok(v) : v \in Payloads} \cup {err(e) : e \in Payloads}
    \cup {some(v) : v \in Payloads} \cup {none}

Init ==
  /\ self \in Constructed
  /\ born = self
  /\ ncalls = 0
  /\ op = NoCall
  /\ res = NoResult
  /\ calls = <<>>
  /\ depth = 0
  /\ handed = FALSE
  /\ failed = FALSE
  /\ erred = FirstErr(NoErr, self, "start")

\* what the caller sees of a call's outcome o: the value returned or thrown
Seen(o) == [k |-> o.k, v |-> o.v]

\* the method called last and its argument (Undefined when it takes none)
Called(name, arg) == [name |-> name, arg |-> arg]

\* one more call made on the container, counted up to MaxCalls
Counted(n) == IF n < MaxCalls THEN n + 1 ELSE n

\* the functions call o was given: its argument, or the members of its ops
HandedFunctions(o) ==
  CASE o.arg.t = "function" -> {o.arg}
    [] o.arg.t = "object" ->
         {o.arg.props[key] : key \in DOMAIN o.arg.props}
    [] OTHER -> {}

\* Each action is one method call on self: a Result method on a Result, an
\* Option method on an Option. The methods assign to no field of the
\* receiver, so self is left as it is.

IsOk ==
  /\ IsResult(self)
  /\ op' = Called("isOk", Undefined)
  /\ res' = Seen(isOk(self))
  /\ calls' = isOk(self).calls
  /\ ncalls' = Counted(ncalls)
  /\ handed' = (handed \/ HandedFunctions(op) # {})
  /\ failed' = (failed \/ res.k = "throw")
  /\ UNCHANGED <<self, born, depth, erred>>

IsErr ==
  /\ IsResult(self)
  /\ op' = Called("isErr", Undefined)
  /\ res' = Seen(isErr(self))
  /\ calls' = isErr(self).calls
  /\ ncalls' = Counted(ncalls)
  /\ handed' = (handed \/ HandedFunctions(op) # {})
  /\ failed' = (failed \/ res.k = "throw")
  /\ UNCHANGED <<self, born, depth, erred>>

Unwrap_Takes ==
  /\ IsResult(self)
  /\ op' = Called("unwrap", Undefined)
  /\ res' = Seen(unwrap(self))
  /\ calls' = unwrap(self).calls
  /\ ncalls' = Counted(ncalls)
  /\ self' = IF self.cls = "Ok" THEN NewOk(Undefined) ELSE self
  /\ handed' = (handed \/ HandedFunctions(op) # {})
  /\ failed' = (failed \/ res.k = "throw")
  /\ UNCHANGED <<born, depth, erred>>

Unwrap ==
  /\ IsResult(self)
  /\ op' = Called("unwrap", Undefined)
  /\ res' = Seen(unwrap(self))
  /\ calls' = unwrap(self).calls
  /\ ncalls' = Counted(ncalls)
  /\ handed' = (handed \/ HandedFunctions(op) # {})
  /\ failed' = (failed \/ res.k = "throw")
  /\ UNCHANGED <<self, born, depth, erred>>

UnwrapOr ==
  \E d \in Payloads :
    /\ IsResult(self)
    /\ op' = Called("unwrapOr", d)
    /\ res' = Seen(unwrapOr(self, d))
    /\ calls' = unwrapOr(self, d).calls
    /\ ncalls' = Counted(ncalls)
    /\ handed' = (handed \/ HandedFunctions(op) # {})
    /\ failed' = (failed \/ res.k = "throw")
    /\ UNCHANGED <<self, born, depth, erred>>

Expect ==
  \E m \in Messages :
    /\ IsResult(self)
    /\ op' = Called("expect", Str(m))
    /\ res' = Seen(expect(self, m))
    /\ calls' = expect(self, m).calls
    /\ ncalls' = Counted(ncalls)
    /\ handed' = (handed \/ HandedFunctions(op) # {})
    /\ failed' = (failed \/ res.k = "throw")
    /\ UNCHANGED <<self, born, depth, erred>>

UnwrapOrElse ==
  \E f \in Fallbacks :
    /\ IsResult(self)
    /\ op' = Called("unwrapOrElse", f)
    /\ res' = Seen(unwrapOrElse(self, f))
    /\ calls' = unwrapOrElse(self, f).calls
    /\ ncalls' = Counted(ncalls)
    /\ handed' = (handed \/ HandedFunctions(op) # {})
    /\ failed' = (failed \/ res.k = "throw")
    /\ UNCHANGED <<self, born, depth, erred>>

AndThen ==
  \E f \in Binders :
    /\ IsResult(self)
    /\ op' = Called("andThen", f)
    /\ res' = Seen(andThen(self, f))
    /\ calls' = andThen(self, f).calls
    /\ ncalls' = Counted(ncalls)
    /\ handed' = (handed \/ HandedFunctions(op) # {})
    /\ failed' = (failed \/ res.k = "throw")
    /\ UNCHANGED <<self, born, depth, erred>>

Map ==
  \E f \in Mappers :
    /\ IsResult(self)
    /\ op' = Called("map", f)
    /\ res' = Seen(map(self, f))
    /\ calls' = map(self, f).calls
    /\ ncalls' = Counted(ncalls)
    /\ handed' = (handed \/ HandedFunctions(op) # {})
    /\ failed' = (failed \/ res.k = "throw")
    /\ UNCHANGED <<self, born, depth, erred>>

UnwrapErr ==
  /\ IsResult(self)
  /\ op' = Called("unwrapErr", Undefined)
  /\ res' = Seen(unwrapErr(self))
  /\ calls' = unwrapErr(self).calls
  /\ ncalls' = Counted(ncalls)
  /\ handed' = (handed \/ HandedFunctions(op) # {})
  /\ failed' = (failed \/ res.k = "throw")
  /\ UNCHANGED <<self, born, depth, erred>>

ExpectErr ==
  \E m \in Messages :
    /\ IsResult(self)
    /\ op' = Called("expectErr", Str(m))
    /\ res' = Seen(expectErr(self, m))
    /\ calls' = expectErr(self, m).calls
    /\ ncalls' = Counted(ncalls)
    /\ handed' = (handed \/ HandedFunctions(op) # {})
    /\ failed' = (failed \/ res.k = "throw")
    /\ UNCHANGED <<self, born, depth, erred>>

Match ==
  \E ops \in ResultOps :
    /\ IsResult(self)
    /\ op' = Called("match", ops)
    /\ res' = Seen(match(self, ops))
    /\ calls' = match(self, ops).calls
    /\ ncalls' = Counted(ncalls)
    /\ handed' = (handed \/ HandedFunctions(op) # {})
    /\ failed' = (failed \/ res.k = "throw")
    /\ UNCHANGED <<self, born, depth, erred>>

Unpack ==
  /\ IsResult(self)
  /\ op' = Called("unpack", Undefined)
  /\ res' = Seen(unpack(self))
  /\ calls' = unpack(self).calls
  /\ ncalls' = Counted(ncalls)
  /\ handed' = (handed \/ HandedFunctions(op) # {})
  /\ failed' = (failed \/ res.k = "throw")
  /\ UNCHANGED <<self, born, depth, erred>>

ToOk ==
  /\ IsResult(self)
  /\ op' = Called("ok", Undefined)
  /\ res' = Seen(Result_ok(self))
  /\ calls' = Result_ok(self).calls
  /\ ncalls' = Counted(ncalls)
  /\ handed' = (handed \/ HandedFunctions(op) # {})
  /\ failed' = (failed \/ res.k = "throw")
  /\ UNCHANGED <<self, born, depth, erred>>

ToErr ==
  /\ IsResult(self)
  /\ op' = Called("err", Undefined)
  /\ res' = Seen(Result_err(self))
  /\ calls' = Result_err(self).calls
  /\ ncalls' = Counted(ncalls)
  /\ handed' = (handed \/ HandedFunctions(op) # {})
  /\ failed' = (failed \/ res.k = "throw")
  /\ UNCHANGED <<self, born, depth, erred>>

\* the same for the methods of an Option

IsSome ==
  /\ IsOption(self)
  /\ op' = Called("isSome", Undefined)
  /\ res' = Seen(isSome(self))
  /\ calls' = isSome(self).calls
  /\ ncalls' = Counted(ncalls)
  /\ handed' = (handed \/ HandedFunctions(op) # {})
  /\ failed' = (failed \/ res.k = "throw")
  /\ UNCHANGED <<self, born, depth, erred>>

IsNone ==
  /\ IsOption(self)
  /\ op' = Called("isNone", Undefined)
  /\ res' = Seen(isNone(self))
  /\ calls' = isNone(self).calls
  /\ ncalls' = Counted(ncalls)
  /\ handed' = (handed \/ HandedFunctions(op) # {})
  /\ failed' = (failed \/ res.k = "throw")
  /\ UNCHANGED <<self, born, depth, erred>>

OptionUnwrap ==
  /\ IsOption(self)
  /\ op' = Called("unwrap", Undefined)
  /\ res' = Seen(Option_unwrap(self))
  /\ calls' = Option_unwrap(self).calls
  /\ ncalls' = Counted(ncalls)
  /\ handed' = (handed \/ HandedFunctions(op) # {})
  /\ failed' = (failed \/ res.k = "throw")
  /\ UNCHANGED <<self, born, depth, erred>>

OptionUnwrapOr ==
  \E d \in Payloads :
    /\ IsOption(self)
    /\ op' = Called("unwrapOr", d)
    /\ res' = Seen(Option_unwrapOr(self, d))
    /\ calls' = Option_unwrapOr(self, d).calls
    /\ ncalls' = Counted(ncalls)
    /\ handed' = (handed \/ HandedFunctions(op) # {})
    /\ failed' = (failed \/ res.k = "throw")
    /\ UNCHANGED <<self, born, depth, erred>>

OptionExpect ==
  \E m \in OptionMessages :
    /\ IsOption(self)
    /\ op' = Called("expect", Str(m))
    /\ res' = Seen(Option_expect(self, m))
    /\ calls' = Option_expect(self, m).calls
    /\ ncalls' = Counted(ncalls)
    /\ handed' = (handed \/ HandedFunctions(op) # {})
    /\ failed' = (failed \/ res.k = "throw")
    /\ UNCHANGED <<self, born, depth, erred>>

OptionMatch ==
  \E ops \in OptionOps :
    /\ IsOption(self)
    /\ op' = Called("match", ops)
    /\ res' = Seen(Option_match(self, ops))
    /\ calls' = Option_match(self, ops).calls
    /\ ncalls' = Counted(ncalls)
    /\ handed' = (handed \/ HandedFunctions(op) # {})
    /\ failed' = (failed \/ res.k = "throw")
    /\ UNCHANGED <<self, born, depth, erred>>

\* the caller calls divide(a, b) before it makes a call on the container it
\* has, which is left as it is
Divide ==
  \E p \in DividePairs :
    /\ ncalls = 0
    /\ op' = Called("divide", Arr(<<Num(p[1]), Num(p[2])>>))
    /\ res' = Seen(divide(Num(p[1]), Num(p[2])))
    /\ calls' = divide(Num(p[1]), Num(p[2])).calls
    /\ UNCHANGED <<self, born, ncalls, depth, handed, failed, erred>>

\* the caller calls findUserById(id)
FindUserById ==
  \E id \in UserIds :
    /\ ncalls = 0
    /\ op' = Called("findUserById", id)
    /\ res' = Seen(findUserById(id))
    /\ calls' = findUserById(id).calls
    /\ UNCHANGED <<self, born, ncalls, depth, handed, failed, erred>>

\* the caller goes on with the container the last call returned, as in
\* divide(14, 0).map((value) => value * 5).unwrap() and
\* divide(10, 2).ok().unwrap()
Chain ==
  /\ depth < MaxChain
  /\ res.k = "return"
  /\ IsInstance(res.v)
  /\ self' = res.v
  /\ born' = res.v
  /\ ncalls' = 0
  /\ op' = NoCall
  /\ res' = NoResult
  /\ calls' = <<>>
  /\ depth' = depth + 1
  /\ handed' = FALSE
  /\ failed' = FALSE
  /\ erred' = IF op.name \in {"andThen", "map"}
                THEN FirstErr(erred, res.v, "step")
                ELSE FirstErr(NoErr, res.v, "start")

Next ==
  \/ IsOk
  \/ IsErr
  \/ Unwrap
  \/ UnwrapOr
  \/ Expect
  \/ UnwrapOrElse
  \/ AndThen
  \/ Map
  \/ UnwrapErr
  \/ ExpectErr
  \/ Match
  \/ Unpack
  \/ ToOk
  \/ ToErr
  \/ IsSome
  \/ IsNone
  \/ OptionUnwrap
  \/ OptionUnwrapOr
  \/ OptionExpect
  \/ OptionMatch
  \/ Divide
  \/ FindUserById
  \/ Chain

Spec == Init /\ [][Next]_vars

(* ------------------------------ properties ----------------------------- *)

\* the receiver is what ok(v) builds for some v
IsOkOf(r) == r.cls = "Ok" /\ r = ok(r.value)

\* the receiver is what err(e) builds for some e
IsErrOf(r) == r.cls = "Err" /\ r = err(r.error)

\* the receiver is what some(v) builds for some v
IsSomeOf(o) == o.cls = "Some" /\ o = some(o.value)

\* the receiver is what none() builds
IsNoneOf(o) == o = none

Returned(v) == [k |-> "return", v |-> v]

Failed(v) == [k |-> "throw", v |-> v]

\* C1: isOk() is true on every ok(v) and false on every err(e), isErr() is
\* false on every ok(v) and true on every err(e); so exactly one of isOk(),
\* isErr() is true of every Result, whatever its payload.
C1_IsOkIsErr ==
  IsResult(self) =>
    /\ IsOkOf(self) \/ IsErrOf(self)
    /\ op.name = "isOk" => res = Returned(Bool(IsOkOf(self)))
    /\ op.name = "isErr" => res = Returned(Bool(IsErrOf(self)))
    /\ isOk(self).k = "return" /\ isErr(self).k = "return"
    /\ isOk(self).v.b # isErr(self).v.b

C1_Witness ==
  /\ self = err(Null)
  /\ op.name = "isOk"
  /\ res = Returned(Bool(FALSE))

\* C2: unwrap() on Ok(v) returns v and signals no failure; on Err(e) it
\* returns nothing and the failure it signals is e itself, not a wrapper.
C2_Unwrap ==
  op.name = "unwrap" =>
    /\ IsOkOf(self) => res = Returned(self.value)
    /\ IsErrOf(self) => res = Failed(self.error)

C2_Witness ==
  /\ self = err(Str("Division by zero."))
  /\ op.name = "unwrap"
  /\ res = Failed(Str("Division by zero."))

\* C3: unwrapOr(d) on Ok(v) returns v whatever d is, on Err(e) it returns
\* d, and it signals a failure on neither.
C3_UnwrapOr ==
  op.name = "unwrapOr" =>
    /\ res.k = "return"
    /\ IsOkOf(self) => res.v = self.value
    /\ IsErrOf(self) => res.v = op.arg

C3_Witness ==
  /\ self = err(Str("boom"))
  /\ op = [name |-> "unwrapOr", arg |-> Null]
  /\ res = Returned(Null)

\* C4: expect(message) on Ok(v) returns v; on Err(e) it signals a failure
\* that is a new Error whose message is the caller's message, and e is no
\* part of it.
C4_Expect ==
  op.name = "expect" =>
    /\ IsOkOf(self) => res = Returned(self.value)
    /\ IsErrOf(self) =>
         /\ res = Failed(NewError(op.arg.s))
         /\ DOMAIN res.v = {"t", "message"}
         /\ res.v # self.error

C4_Witness ==
  /\ self = err(Str("Division by zero."))
  /\ op = [name |-> "expect", arg |-> Str("Cannot be divided by 0.")]
  /\ res = Failed(NewError("Cannot be divided by 0."))

\* C5 as stated: unwrapOrElse(fallback) on Ok(v) returns v and never
\* invokes fallback; on Err(e) it invokes fallback exactly once with e and
\* returns fallback(e); it never fails on either variant.
C5_UnwrapOrElse_Original ==
  op.name = "unwrapOrElse" =>
    /\ res.k = "return"
    /\ IsOkOf(self) => res.v = self.value /\ calls = <<>>
    /\ IsErrOf(self) =>
         /\ calls = <<Invocation(op.arg, self.error)>>
         /\ res.v = Invoke(op.arg, self.error).v

\* C5 (amended): unwrapOrElse(fallback) on Ok(v) returns v and never invokes
\* fallback; on Err(e) it invokes fallback exactly once with e and ends as
\* that invocation ends: it returns what fallback(e) returns, and a failure
\* that fallback signals reaches the caller unchanged; it signals no failure
\* of its own.
C5_UnwrapOrElse ==
  op.name = "unwrapOrElse" =>
    /\ IsOkOf(self) => res = Returned(self.value) /\ calls = <<>>
    /\ IsErrOf(self) =>
         /\ calls = <<Invocation(op.arg, self.error)>>
         /\ res.k = Invoke(op.arg, self.error).k
         /\ res.v = Invoke(op.arg, self.error).v
    /\ res.k = "throw" => IsErrOf(self) /\ Invoke(op.arg, self.error).k = "throw"

C5_Witness ==
  /\ self = err(Str("boom"))
  /\ op = [name |-> "unwrapOrElse", arg |-> Fn("fallbackMsg")]
  /\ res = Returned(Str("Fallback: boom"))
  /\ Len(calls) = 1

\* C6: unwrapErr() on Err(e) returns e and signals no failure; on Ok(v) it
\* signals a failure whose message is "Tried to 'unwrapErr' an Ok value: "
\* followed by v as a template literal prints it.
C6_UnwrapErr ==
  op.name = "unwrapErr" =>
    /\ IsErrOf(self) => res = Returned(self.error)
    /\ IsOkOf(self) =>
         /\ res.k = "throw"
         /\ res.v.t = "Error"
         /\ res.v.message =
              "Tried to 'unwrapErr' an Ok value: " \o TemplateString(self.value)
    /\ self = ok(Num(5)) => res.v.message = "Tried to 'unwrapErr' an Ok value: 5"
    /\ self = ok(Str("boom")) =>
         res.v.message = "Tried to 'unwrapErr' an Ok value: boom"

C6_Witness ==
  /\ self = ok(Num(5))
  /\ op.name = "unwrapErr"
  /\ res = Failed(NewError("Tried to 'unwrapErr' an Ok value: 5"))

\* C7: expectErr(message) on Err(e) returns e whatever the message is; on
\* Ok(v) it signals a failure whose message is the caller's message and
\* nothing else, v not included.
C7_ExpectErr ==
  op.name = "expectErr" =>
    /\ IsErrOf(self) => res = Returned(self.error)
    /\ IsOkOf(self) => res = Failed(NewError(op.arg.s))

C7_Witness ==
  /\ self = ok(Num(5))
  /\ op = [name |-> "expectErr", arg |-> Str("Expected an error but got an Ok value")]
  /\ res = Failed(NewError("Expected an error but got an Ok value"))

\* C8: andThen(f) on Err(e) returns a Result equal to the receiver, an Err
\* carrying the same e, and f is never invoked.
C8_AndThenErr ==
  (op.name = "andThen" /\ IsErrOf(self)) =>
    /\ res = Returned(err(self.error))
    /\ res.v = self
    /\ calls = <<>>

C8_Witness ==
  /\ self = err(Str("boom"))
  /\ op = [name |-> "andThen", arg |-> Fn("okTriple")]
  /\ res = Returned(err(Str("boom")))

\* C9: andThen(f) on Ok(v), for f returning a Result, invokes f exactly once
\* with v and returns the Result f(v) as it is, not wrapped again: Ok(u)
\* when f(v) is Ok(u), Err(e) when f(v) is Err(e).
C9_AndThenOk ==
  (op.name = "andThen" /\ IsOkOf(self) /\ Invoke(op.arg, self.value).k = "return") =>
    /\ calls = <<Invocation(op.arg, self.value)>>
    /\ res = Returned(Invoke(op.arg, self.value).v)
    /\ op.arg = Fn("okTriple") => res.v = ok(Times(self.value, 3))
    /\ (op.arg = Fn("nonZero") /\ self.value = Num(0)) =>
         res.v = err(Str("Division by zero."))
    /\ (op.arg = Fn("nonZero") /\ self.value # Num(0)) => res.v = ok(self.value)

C9_Witness ==
  /\ self = ok(Num(0))
  /\ op = [name |-> "andThen", arg |-> Fn("nonZero")]
  /\ res = Returned(err(Str("Division by zero.")))
  /\ Len(calls) = 1

\* C10: map(f) on Ok(v) is an Ok holding f(v), so ok(5).map(x => x * 3)
\* unwraps to 15; on Err(e) it stays an Err carrying e, f is never invoked
\* and unwrap() on it still fails with e.
C10_Map ==
  op.name = "map" =>
    /\ (IsOkOf(self) /\ Invoke(op.arg, self.value).k = "return") =>
         /\ res = Returned(ok(Invoke(op.arg, self.value).v))
         /\ unwrap(res.v) = Return(Invoke(op.arg, self.value).v)
         /\ calls = <<Invocation(op.arg, self.value)>>
    /\ (self = ok(Num(5)) /\ op.arg = Fn("triple")) =>
         unwrap(res.v) = Return(Num(15))
    /\ IsErrOf(self) =>
         /\ res = Returned(err(self.error))
         /\ calls = <<>>
         /\ unwrap(res.v) = Throw(self.error)

C10_Witness ==
  /\ self = ok(Num(5))
  /\ op = [name |-> "map", arg |-> Fn("triple")]
  /\ res = Returned(ok(Num(15)))

\* C11: match({Ok, Error}) on a Result runs exactly one of the two handlers,
\* exactly once: on Ok(v) the Ok handler with v and not the Error handler, on
\* Err(e) the Error handler with e and not the Ok handler; the call ends as
\* the handler that ran ends, returning what it returned.
C11_Match ==
  (op.name = "match" /\ IsResult(self) /\ DOMAIN op.arg.props = {"Ok", "Error"}) =>
    /\ Len(calls) = 1
    /\ IsOkOf(self) =>
         /\ calls = <<MemberInvocation("Ok", op.arg.props.Ok, <<self.value>>)>>
         /\ res = Seen(Invoke(op.arg.props.Ok, self.value))
    /\ IsErrOf(self) =>
         /\ calls = <<MemberInvocation("Error", op.arg.props.Error, <<self.error>>)>>
         /\ res = Seen(Invoke(op.arg.props.Error, self.error))
    /\ (self = ok(Num(5)) /\ op.arg.props.Ok = Fn("valueIs")) =>
         res = Returned(Str("Value is 5"))

C11_Witness ==
  /\ self = err(Str("Division by zero."))
  /\ op = Called("match",
                 Obj([Ok |-> Fn("shouldNotBeCalled"), Error |-> Fn("errorOccurred")]))
  /\ res = Returned(Str("Error occurred: Division by zero."))
  /\ calls = <<MemberInvocation("Error", Fn("errorOccurred"), <<Str("Division by zero.")>>)>>

\* the two slots of the pair the last call returned
Slot(i) == res.v.items[i]

\* C12 as stated: for every Result, whatever payload ok(v) or err(e) was
\* given, exactly one slot of the pair unpack() returns is populated and the
\* other is null; never both populated, never both null.
C12_UnpackExclusive_Original ==
  (op.name = "unpack" /\ IsResult(self)) =>
    /\ res.k = "return"
    /\ Len(res.v.items) = 2
    /\ (Slot(1) # Null) # (Slot(2) # Null)

\* C12 (amended): the pair unpack() returns never has both slots populated,
\* and the slot of the other variant is always null (the second on an Ok,
\* the first on an Err); exactly one slot is populated when the payload is
\* not null, and both slots are null when the payload is null (ok(null),
\* err(null)).
C12_UnpackExclusive ==
  (op.name = "unpack" /\ IsResult(self)) =>
    /\ res.k = "return"
    /\ Len(res.v.items) = 2
    /\ Slot(1) = Null \/ Slot(2) = Null
    /\ IsOkOf(self) => Slot(2) = Null /\ (Slot(1) = Null <=> self.value = Null)
    /\ IsErrOf(self) => Slot(1) = Null /\ (Slot(2) = Null <=> self.error = Null)

C12_Witness ==
  /\ self = ok(Null)
  /\ op.name = "unpack"
  /\ res = Returned(Arr(<<Null, Null>>))

\* C13: unpack() returns the pair [value, error] in that order:
\* ok(v).unpack() is [v, null] and err(e).unpack() is [null, e].
C13_UnpackOrder ==
  (op.name = "unpack" /\ IsResult(self)) =>
    /\ IsOkOf(self) => res = Returned(Arr(<<self.value, Null>>))
    /\ IsErrOf(self) => res = Returned(Arr(<<Null, self.error>>))

C13_Witness ==
  /\ self = err(Str("Division by zero."))
  /\ op.name = "unpack"
  /\ res = Returned(Arr(<<Null, Str("Division by zero.")>>))

\* C14: ok(v).ok() is a Some whose unwrap() is v, err(e).err() is a Some
\* whose unwrap() is e, ok(v).err() and err(e).ok() answer isNone() with true.
C14_ToOption ==
  /\ (op.name = "ok" /\ IsOkOf(self)) =>
       /\ res = Returned(some(self.value))
       /\ Option_unwrap(res.v) = Return(self.value)
  /\ (op.name = "err" /\ IsErrOf(self)) =>
       /\ res = Returned(some(self.error))
       /\ Option_unwrap(res.v) = Return(self.error)
  /\ (op.name = "err" /\ IsOkOf(self)) =>
       /\ res = Returned(none)
       /\ isNone(res.v) = Return(Bool(TRUE))
  /\ (op.name = "ok" /\ IsErrOf(self)) =>
       /\ res = Returned(none)
       /\ isNone(res.v) = Return(Bool(TRUE))

C14_Witness ==
  /\ self = err(Str("Division by zero."))
  /\ op.name = "ok"
  /\ res = Returned(none)

\* C15: isSome() is true on every some(v) and false on none(), isNone() is
\* false on every some(v) and true on none(); so exactly one of the two is
\* true of every Option.
C15_IsSomeIsNone ==
  IsOption(self) =>
    /\ IsSomeOf(self) \/ IsNoneOf(self)
    /\ op.name = "isSome" => res = Returned(Bool(IsSomeOf(self)))
    /\ op.name = "isNone" => res = Returned(Bool(IsNoneOf(self)))
    /\ isSome(self).k = "return" /\ isNone(self).k = "return"
    /\ isSome(self).v.b # isNone(self).v.b

C15_Witness ==
  /\ self = none
  /\ op.name = "isSome"
  /\ res = Returned(Bool(FALSE))

\* C16: unwrap() on Some(v) returns v; on None it signals a failure with the
\* message "Called unwrap on a None value.", the same on every call.
C16_OptionUnwrap ==
  (op.name = "unwrap" /\ IsOption(self)) =>
    /\ IsSomeOf(self) => res = Returned(self.value)
    /\ IsNoneOf(self) => res = Failed(NewError("Called unwrap on a None value."))

C16_Witness ==
  /\ self = none
  /\ op.name = "unwrap"
  /\ res = Failed(NewError("Called unwrap on a None value."))

\* C17: unwrapOr(d) on Some(v) returns v whatever d is, on None it returns
\* d, and it signals a failure on neither.
C17_OptionUnwrapOr ==
  (op.name = "unwrapOr" /\ IsOption(self)) =>
    /\ res.k = "return"
    /\ IsSomeOf(self) => res.v = self.value
    /\ IsNoneOf(self) => res.v = op.arg

C17_Witness ==
  /\ self = some(Num(2))
  /\ op = Called("unwrapOr", Num(3))
  /\ res = Returned(Num(2))

\* C18: expect(message) on Some(v) returns v; on None it signals a failure
\* whose message is the caller's message.
C18_OptionExpect ==
  (op.name = "expect" /\ IsOption(self)) =>
    /\ IsSomeOf(self) => res = Returned(self.value)
    /\ IsNoneOf(self) => res = Failed(NewError(op.arg.s))

C18_Witness ==
  /\ self = none
  /\ op.name = "expect"
  /\ res = Failed(NewError("User with the given ID was not found."))

\* C19: match({Some, None}) on an Option runs exactly one of the two
\* handlers, exactly once: on Some(v) the Some handler with v, on None the
\* None handler with no argument; the call ends as the handler that ran
\* ends, returning what it returned.
C19_OptionMatch ==
  (op.name = "match" /\ IsOption(self)) =>
    /\ Len(calls) = 1
    /\ IsSomeOf(self) =>
         /\ calls = <<MemberInvocation("Some", op.arg.props.Some, <<self.value>>)>>
         /\ res = Seen(Invoke(op.arg.props.Some, self.value))
    /\ IsNoneOf(self) =>
         /\ calls = <<MemberInvocation("None", op.arg.props.None, <<>>)>>
         /\ res = Seen(Invoke(op.arg.props.None, Undefined))

C19_Witness ==
  /\ self = none
  /\ op = Called("match", Obj([Some |-> Fn("shouldNotBeCalled"), None |-> Fn("noneCalled")]))
  /\ res = Returned(Str("None called."))
  /\ calls = <<MemberInvocation("None", Fn("noneCalled"), <<>>)>>

\* C20: whatever calls were made on a container, whether they returned or
\* failed, its variant and payload are those its constructor gave it, and
\* isOk(), isErr(), isSome() and isNone() answer as they did on the new
\* container.
C20_Immutable ==
  /\ self = born
  /\ (IsResult(born) /\ op.name = "isOk") => res = Seen(isOk(born))
  /\ (IsResult(born) /\ op.name = "isErr") => res = Seen(isErr(born))
  /\ (IsOption(born) /\ op.name = "isSome") => res = Seen(isSome(born))
  /\ (IsOption(born) /\ op.name = "isNone") => res = Seen(isNone(born))

C20_Witness ==
  /\ ncalls >= 2
  /\ self = ok(Num(5))
  /\ born = self
  /\ op.name = "isOk"
  /\ res = Returned(Bool(TRUE))

\* C21: a function given to match, andThen, map or unwrapOrElse is invoked
\* at most once and only by the call that was given it: the invocations a
\* call made are of functions that very call was given, a call given none
\* invokes none (so no function of an earlier call runs again), and the
\* container, left as it was built, holds no function in any field.
C21_HandlerOnce ==
  /\ Len(calls) <= 1
  /\ \A i \in 1..Len(calls) : calls[i].fn \in HandedFunctions(op)
  /\ op.name \notin {"match", "andThen", "map", "unwrapOrElse"} => calls = <<>>
  /\ self = born
  /\ \A field \in DOMAIN self \ {"cls"} : self[field].t # "function"

C21_Witness ==
  /\ handed
  /\ self = err(Str("boom"))
  /\ op = [name |-> "unwrapOrElse", arg |-> Fn("fallbackMsg")]
  /\ calls = <<Invocation(Fn("fallbackMsg"), Str("boom"))>>

\* C22: in a chain of andThen and map calls, once a container of the chain
\* is an Err(e), whether the chain started with it or a function given to
\* andThen returned it, every later container of the chain is that same
\* Err(e), and andThen and map on it invoke no function, signal no failure
\* and return it.
C22_ErrPropagates ==
  (erred # NoErr /\ IsResult(self)) =>
    /\ self = erred.r
    /\ IsErrOf(self)
    /\ op.name \in {"andThen", "map"} =>
         /\ calls = <<>>
         /\ res = Returned(erred.r)

C22_Witness ==
  /\ erred = [from |-> "step", r |-> err(Str("Division by zero."))]
  /\ depth = 2
  /\ op = [name |-> "map", arg |-> Fn("triple")]
  /\ calls = <<>>
  /\ res = Returned(err(Str("Division by zero.")))

\* the argument the invocation record c was made with
ArgumentOf(c) ==
  IF "arg" \in DOMAIN c THEN c.arg
  ELSE IF c.args = <<>> THEN Undefined ELSE c.args[1]

\* C23: when a function given to match, andThen, map or unwrapOrElse is
\* invoked and signals a failure, the call fails with that same failure: it
\* is not swallowed and not turned into a returned Err or None.
C23_FailureReachesCaller ==
  op.name \in {"match", "andThen", "map", "unwrapOrElse"} =>
    \A i \in 1..Len(calls) :
      Invoke(calls[i].fn, ArgumentOf(calls[i])).k = "throw" =>
        res = Failed(Invoke(calls[i].fn, ArgumentOf(calls[i])).v)

C23_Witness ==
  /\ self = ok(Num(5))
  /\ op = [name |-> "map", arg |-> Fn("thrower")]
  /\ calls = <<Invocation(Fn("thrower"), Num(5))>>
  /\ res = Failed(thrower(Num(5)).v)
  /\ res.k = "throw"

\* C24: match(ops) on a Result dispatches on the keys Ok and Err: given
\* {Ok, Err} it returns ops.Ok(value) on an Ok and ops.Err(error) on an Err.
C24_MatchOkErr ==
  (op.name = "match" /\ IsResult(self) /\ DOMAIN op.arg.props = {"Ok", "Err"}) =>
    /\ IsOkOf(self) => res = Seen(Invoke(op.arg.props.Ok, self.value))
    /\ IsErrOf(self) => res = Seen(Invoke(op.arg.props.Err, self.error))

\* C25: findUserById(id) over the two users returns Some(u) with u.id = id
\* when there is such a user, Alice for 1 and {id: 2, name: "Bob"} for 2,
\* and None for every other id; on that None unwrapOr(d) returns d and
\* unwrap() fails.
C25_FindUserById ==
  op.name = "findUserById" =>
    /\ op.arg = Num(1) =>
         res = Returned(some(Obj([id |-> Num(1), name |-> Str("Alice")])))
    /\ op.arg = Num(2) =>
         res = Returned(some(Obj([id |-> Num(2), name |-> Str("Bob")])))
    /\ op.arg \in {Num(1), Num(2)} =>
         /\ res.k = "return"
         /\ IsSomeOf(res.v)
         /\ res.v.value.props.id = op.arg
    /\ op.arg \notin {Num(1), Num(2)} =>
         /\ res = Returned(none)
         /\ \A d \in Payloads : Option_unwrapOr(res.v, d) = Return(d)
         /\ Option_unwrap(res.v).k = "throw"

C25_Witness ==
  /\ op = [name |-> "findUserById", arg |-> Num(3)]
  /\ res = Returned(none)
  /\ Option_unwrap(res.v) = Throw(NewError("Called unwrap on a None value."))

\* C26: divide(a, b) returns an Err carrying "Division by zero." exactly
\* when b is 0, and Ok(a / b) for every other b: divide(4, 2) is ok(2) and
\* unwraps to 2, divide(4, 0) is an Err on which unwrapOr(-1) returns -1 and
\* unwrap() fails with that message.
C26_Divide ==
  op.name = "divide" =>
    /\ op.arg.items[2] = Num(0) <=>
         (res.k = "return" /\ IsErrOf(res.v))
    /\ op.arg.items[2] = Num(0) =>
         res = Returned(err(Str("Division by zero.")))
    /\ op.arg.items[2] # Num(0) =>
         res = Returned(ok(Quotient(op.arg.items[1], op.arg.items[2])))
    /\ op.arg.items = <<Num(4), Num(2)>> =>
         /\ res = Returned(ok(Num(2)))
         /\ unwrap(res.v) = Return(Num(2))
    /\ op.arg.items = <<Num(4), Num(0)>> =>
         /\ unwrapOr(res.v, Num(-1)) = Return(Num(-1))
         /\ unwrap(res.v) = Throw(Str("Division by zero."))

\* the set of the invocation records of the sequence s
Range(s) == {s[i] : i \in 1..Len(s)}

\* what r.andThen(f).andThen(g) comes to once r.andThen(f) came to first:
\* the second call is made only when the first returned
ThenAndThen(first, g) ==
  IF first.k = "return" THEN andThen(first.v, g)
  ELSE [k |-> first.k, v |-> first.v, calls |-> <<>>]

\* what r.map(f).map(g) comes to once r.map(f) came to first
ThenMap(first, g) ==
  IF first.k = "return" THEN map(first.v, g)
  ELSE [k |-> first.k, v |-> first.v, calls |-> <<>>]

\* the invocations made by the bodies of the functions the outcome o invoked
InvokedWithin(o) ==
  UNION {Range(InvokedBy(o.calls[i].fn, o.calls[i].arg)) : i \in 1..Len(o.calls)}

\* C27: andThen and ok obey the monad laws up to structural equality: left
\* identity, ok(v).andThen(f) = f(v); right identity, r.andThen(ok) = r;
\* associativity, r.andThen(f).andThen(g) = r.andThen(x => f(x).andThen(g)),
\* both sides making the same invocations of f and g.
C27_MonadLaws ==
  (op.name = "andThen" /\ IsResult(self)) =>
    /\ IsOkOf(self) => res = Seen(Invoke(op.arg, self.value))
    /\ op.arg = Fn("ok") => res = Returned(self)
    /\ \A g \in Binders :
         /\ Seen(ThenAndThen(res, g)) = Seen(andThen(self, BindThen(op.arg, g)))
         /\ Range(calls) \cup Range(ThenAndThen(res, g).calls)
              = InvokedWithin(andThen(self, BindThen(op.arg, g)))

C27_Witness ==
  /\ self = ok(Num(1))
  /\ op = [name |-> "andThen", arg |-> Fn("okTriple")]
  /\ res = Returned(ok(Num(3)))
  /\ andThen(res.v, Fn("nonZero")) =
       [k |-> "return", v |-> ok(Num(3)),
        calls |-> <<Invocation(Fn("nonZero"), Num(3))>>]
  /\ InvokedWithin(andThen(self, BindThen(Fn("okTriple"), Fn("nonZero")))) =
       {Invocation(Fn("okTriple"), Num(1)), Invocation(Fn("nonZero"), Num(3))}

\* C28: map obeys the functor laws and agrees with andThen: r.map(x => x) =
\* r; r.map(f) = r.andThen(x => ok(f(x))); r.map(f).map(g) =
\* r.map(x => g(f(x))).
C28_FunctorLaws ==
  (op.name = "map" /\ IsResult(self)) =>
    /\ op.arg = Fn("ident") => res = Returned(self)
    /\ res = Seen(andThen(self, OkAfter(op.arg)))
    /\ \A g \in Mappers :
         Seen(ThenMap(res, g)) = Seen(map(self, Compose(op.arg, g)))

C28_Witness ==
  /\ self = ok(Num(1))
  /\ op = [name |-> "map", arg |-> Fn("triple")]
  /\ res = Returned(ok(Num(3)))
  /\ map(res.v, Fn("triple")) =
       [k |-> "return", v |-> ok(Num(9)),
        calls |-> <<Invocation(Fn("triple"), Num(3))>>]
  /\ Seen(map(self, Compose(Fn("triple"), Fn("triple")))) = Returned(ok(Num(9)))
  /\ Seen(andThen(self, OkAfter(Fn("triple")))) = Returned(ok(Num(3)))

\* C29: the variant depends on the constructor only, not on the payload:
\* of every Result r, null and undefined payloads included, exactly one of
\* r.ok() and r.err() is a Some, r.ok().isSome() is r.isOk() and
\* r.err().isSome() is r.isErr(); some(null) and some(undefined) answer
\* isSome() with true.
C29_VariantByConstructor ==
  /\ IsResult(self) =>
       /\ isSome(Result_ok(self).v).v.b # isSome(Result_err(self).v).v.b
       /\ Seen(isSome(Result_ok(self).v)) = Seen(isOk(self))
       /\ Seen(isSome(Result_err(self).v)) = Seen(isErr(self))
       /\ op.name = "ok" => Seen(isSome(res.v)) = Returned(Bool(IsOkOf(self)))
       /\ op.name = "err" => Seen(isSome(res.v)) = Returned(Bool(IsErrOf(self)))
  /\ (op.name = "isSome" /\ self \in {some(Null), some(Undefined)}) =>
       res = Returned(Bool(TRUE))

C29_Witness ==
  /\ self = ok(Null)
  /\ op = [name |-> "ok", arg |-> Undefined]
  /\ res = Returned(some(Null))
  /\ isSome(res.v) = Return(Bool(TRUE))

\* what the call o comes to on the container c
CallOn(c, o) ==
  IF IsResult(c)
    THEN CASE o.name = "isOk" -> isOk(c)
           [] o.name = "isErr" -> isErr(c)
           [] o.name = "unwrap" -> unwrap(c)
           [] o.name = "unwrapOr" -> unwrapOr(c, o.arg)
           [] o.name = "expect" -> expect(c, o.arg.s)
           [] o.name = "unwrapOrElse" -> unwrapOrElse(c, o.arg)
           [] o.name = "andThen" -> andThen(c, o.arg)
           [] o.name = "map" -> map(c, o.arg)
           [] o.name = "unwrapErr" -> unwrapErr(c)
           [] o.name = "expectErr" -> expectErr(c, o.arg.s)
           [] o.name = "match" -> match(c, o.arg)
           [] o.name = "unpack" -> unpack(c)
           [] o.name = "ok" -> Result_ok(c)
           [] o.name = "err" -> Result_err(c)
    ELSE CASE o.name = "isSome" -> isSome(c)
           [] o.name = "isNone" -> isNone(c)
           [] o.name = "unwrap" -> Option_unwrap(c)
           [] o.name = "unwrapOr" -> Option_unwrapOr(c, o.arg)
           [] o.name = "expect" -> Option_expect(c, o.arg.s)
           [] o.name = "match" -> Option_match(c, o.arg)

\* C30: of every Result exactly one of unwrap() and unwrapErr() fails, and
\* exactly one of expect(m) and expectErr(m); and a failed call leaves
\* nothing behind: after a call on a Result or an Option has failed, the
\* container is as it was built and every later call on it comes to what the
\* same call on the container as built comes to.
C30_UnwrapSymmetry ==
  /\ IsResult(self) =>
       /\ (unwrap(self).k = "throw") # (unwrapErr(self).k = "throw")
       /\ \A m \in Messages :
            (expect(self, m).k = "throw") # (expectErr(self, m).k = "throw")
       /\ op.name = "unwrap" => (res.k = "throw") # (unwrapErr(self).k = "throw")
       /\ op.name = "unwrapErr" => (res.k = "throw") # (unwrap(self).k = "throw")
       /\ op.name = "expect" =>
            (res.k = "throw") # (expectErr(self, op.arg.s).k = "throw")
       /\ op.name = "expectErr" =>
            (res.k = "throw") # (expect(self, op.arg.s).k = "throw")
  /\ (failed /\ op.name \notin {"new", "divide", "findUserById"}) =>
       /\ self = born
       /\ res = Seen(CallOn(born, op))
       /\ calls = CallOn(born, op).calls

C30_Witness ==
  /\ failed
  /\ self = err(Str("boom"))
  /\ op = [name |-> "unwrapErr", arg |-> Undefined]
  /\ res = Returned(Str("boom"))
  /\ unwrap(self).k = "throw"

====
